---- MODULE Spec2Model ----
(***************************************************************************)
(* Model of the stock audit of src/app.py: the feed items are classified   *)
(* one by one, watchlisted items are handed to a thread pool that inspects *)
(* the product pages, the results are merged into the row list by product  *)
(* name, and the rows are sorted for display.                              *)
(*                                                                         *)
(* Text is modelled as a sequence of tokens (a token stands for a run of   *)
(* characters), so that substring tests, replace() and strip() are         *)
(* computed and not assumed.                                               *)
(***************************************************************************)
EXTENDS Integers, Sequences, FiniteSets, TLC

VARIABLES items, i, items_data, deep_check_candidates, futures, consumed, df, pc

vars == <<items, i, items_data, deep_check_candidates, futures, consumed, df, pc>>

\* Longest feed explored.
MaxItems == 3

\* ThreadPoolExecutor(max_workers=8)
max_workers == 8

\* Python's None for a text value (an absent text is falsy, as is an empty one)
None == <<>>

----------------------------------------------------------------------------
\* Configuration

WATCHLIST_KEYWORDS ==
    { "Premium Pineapple Balls", "Anchor Butter Cookies", "Red Velvet Biscoff",
      "Pink Himalayan", "Kopi Siew Dai", "Molten Chocolate",
      "Chocolate Coffee", "Green Pea", "Peanut Cookies",
      "Almond Cookies", "Wholemeal Raisin", "Cranberry Pineapple",
      "Elegance Reunion", "Tote of" }

SINGLE_VARIANT_IGNORE ==
    { "Pandan", "Kueh Bangkit", "Mixed Berry", "Hojicha",
      "Nyonya Coconut", "Classic Cheese", "Love Letter" }

----------------------------------------------------------------------------
\* Text helpers

\* `tok in text`
Contains(text, tok) == \E n \in 1..Len(text) : text[n] = tok

\* text.replace(tok, "")
Replace(text, tok) == SelectSeq(text, LAMBDA t : t # tok)

RECURSIVE LStrip(_)
LStrip(text) ==
    IF text # <<>> /\ Head(text) = " " THEN LStrip(Tail(text)) ELSE text

RECURSIVE RStrip(_)
RStrip(text) ==
    IF text # <<>> /\ text[Len(text)] = " "
    THEN RStrip(SubSeq(text, 1, Len(text) - 1))
    ELSE text

\* text.strip()
Strip(text) == RStrip(LStrip(text))

\* title.replace(" - Mdm Ling Bakery", "").replace("[CNY 2026]", "").strip()
CleanName(title) ==
    Strip(Replace(Replace(title, " - Mdm Ling Bakery"), "[CNY 2026]"))

\* Code point of the first character of a token: the order that Python's
\* string comparison gives to the tokens used here.
TokOrd(t) ==
    CASE t = " " -> 32
      [] t = " - Fun Size" -> 32
      [] t = "Butter Cake" -> 66
      [] t = "Green Pea" -> 71
      [] t = "Pandan" -> 80
      [] t = "Premium Pineapple Balls" -> 80
      [] t = "Red Velvet Biscoff" -> 82
      [] OTHER -> 90

\* a < b for names, lexicographically
RECURSIVE NameLess(_, _)
NameLess(a, b) ==
    IF b = <<>> THEN FALSE
    ELSE IF a = <<>> THEN TRUE
    ELSE IF TokOrd(Head(a)) # TokOrd(Head(b)) THEN TokOrd(Head(a)) < TokOrd(Head(b))
    ELSE NameLess(Tail(a), Tail(b))

----------------------------------------------------------------------------
\* Feed items: a sequence of child elements [tag, text]

EndsWith(tag, ending) == tag # <<>> /\ tag[Len(tag)] = ending

RECURSIVE get_tag_text(_, _)
get_tag_text(item, tag_name_ending) ==
    IF item = <<>> THEN None
    ELSE IF EndsWith(Head(item).tag, tag_name_ending) /\ Head(item).text # None
         THEN Head(item).text
         ELSE get_tag_text(Tail(item), tag_name_ending)

Child(tag, text) == [tag |-> tag, text |-> text]

TitleRVB == <<"Red Velvet Biscoff", " - Mdm Ling Bakery">>
TitleRVBTagged == <<"[CNY 2026]", " ", "Red Velvet Biscoff">>
TitlePandan == <<"Pandan", " ", "Premium Pineapple Balls">>
TitleGreenPea == <<"Green Pea", " ">>
TitleButter == <<"Butter Cake">>

InStockText == <<"in_stock">>
OutOfStockText == <<"out_of_stock">>

UrlA == <<"https://x/a">>
UrlB == <<"https://x/b">>

Item(title, availability, link) ==
    << Child(<<"title">>, title),
       Child(<<"g:", "availability">>, availability),
       Child(<<"{ns}", "link">>, link) >>

\* The feed items explored.
FeedItems ==
    { Item(TitleRVB, InStockText, UrlA),
      Item(TitleRVBTagged, OutOfStockText, UrlB),
      Item(TitleRVB, InStockText, <<>>),
      Item(TitlePandan, InStockText, UrlB),
      Item(TitleGreenPea, InStockText, UrlB),
      Item(TitleButter, InStockText, UrlA),
      Item(<<>>, InStockText, UrlA),
      << Child(<<"title">>, TitleGreenPea), Child(<<"{ns}", "link">>, UrlB) >> }

Feeds == UNION { [1..n -> FeedItems] : n \in 0..MaxItems }

----------------------------------------------------------------------------
\* Product pages, as the inspector's request finds them

Page(status_code, exc, price, payload) ==
    [status_code |-> status_code, exc |-> exc, price |-> price, payload |-> payload]

Variant(is_in_stock, attr) == [is_in_stock |-> is_in_stock, attr |-> attr]

\* price: <<>> when the page has no element of class "price", else <<its text>>;
\* payload: <<>> when the page embeds no variant data, else <<the variants>>.
Pages ==
    { Page(404, FALSE, <<>>, <<>>),
      Page(200, TRUE, <<>>, <<>>),
      Page(200, FALSE, <<>>, <<>>),
      Page(200, FALSE, << <<"$11.80", "-", "$22.80">> >>,
           << <<Variant(FALSE, "fun-size"), Variant(TRUE, "regular")>> >>),
      Page(200, FALSE, << <<"$22.80">> >>, << <<Variant(TRUE, "regular")>> >>),
      Page(200, FALSE, << <<"$11.80", "ENDASH", "$22.80">> >>, <<>>) }

Result(name, status, details) == [name |-> name, status |-> status, details |-> details]

\* A page not fetched yet, a result not produced yet.
NoPage == Page(0, FALSE, <<>>, <<>>)
NoResult == Result(<<>>, "None", <<>>)

\* An exception stored in a future: future.result() raises it again.
Fault == Result(<<>>, "Fault", <<>>)

\* The inspector with a range test that knows the hyphen only.
check_single_page_hyphen_only(url, product_name, page) ==
    IF page.exc
    THEN Result(product_name, "Check Failed", <<"Timeout/Error">>)
    ELSE IF page.status_code # 200
    THEN Result(product_name, "Link Error", <<"Could not load page">>)
    ELSE IF page.price = <<>>
    THEN Result(product_name, "In Stock", <<"No price tag found (Safe)">>)
    ELSE IF Contains(page.price[1], "-")
    THEN Result(product_name, "In Stock", <<"Range verified: ">> \o page.price[1])
    ELSE Result(product_name, "Variation OOS",
                <<"Single Price Only: ">> \o page.price[1])

\* The inspector without its `except Exception` clause: the exception is
\* kept in the future.
check_single_page_no_except(url, product_name, page) ==
    IF page.exc
    THEN Fault
    ELSE IF page.status_code # 200
    THEN Result(product_name, "Link Error", <<"Could not load page">>)
    ELSE IF page.price = <<>>
    THEN Result(product_name, "In Stock", <<"No price tag found (Safe)">>)
    ELSE IF Contains(page.price[1], "ENDASH") \/ Contains(page.price[1], "-")
    THEN Result(product_name, "In Stock", <<"Range verified: ">> \o page.price[1])
    ELSE Result(product_name, "Variation OOS",
                <<"Single Price Only: ">> \o page.price[1])

check_single_page_range_rule(url, product_name, page) ==
    IF page.exc
    THEN \* except Exception
         Result(product_name, "Check Failed", <<"Timeout/Error">>)
    ELSE IF page.status_code # 200
    THEN Result(product_name, "Link Error", <<"Could not load page">>)
    ELSE IF page.price = <<>>
    THEN Result(product_name, "In Stock", <<"No price tag found (Safe)">>)
    ELSE LET price_text == page.price[1]
             has_range == Contains(price_text, "ENDASH") \/ Contains(price_text, "-")
         IN  IF has_range
             THEN Result(product_name, "In Stock", <<"Range verified: ">> \o price_text)
             ELSE Result(product_name, "Variation OOS",
                         <<"Single Price Only: ">> \o price_text)

----------------------------------------------------------------------------
\* Classification of one feed item (step 3 of the audit)

Row(name, status, details, url, sort_order) ==
    [Product_Name |-> name, Status |-> status, Details |-> details,
     URL |-> url, sort_order |-> sort_order]

is_out_of_stock(availability) == Contains(availability, "out_of_stock")

is_watchlist(name) == \E k \in WATCHLIST_KEYWORDS : Contains(name, k)

is_ignored(name) == \E k \in SINGLE_VARIANT_IGNORE : Contains(name, k)

\* The watchlist decision without the test of the link.
NeedsDeepCheckNoLink(name, availability, link) ==
    /\ ~is_out_of_stock(availability)
    /\ is_watchlist(name)
    /\ ~is_ignored(name)

\* if is_watchlist and not is_ignored and link, on the else branch of the
\* out_of_stock test
NeedsDeepCheck(name, availability, link) ==
    /\ ~is_out_of_stock(availability)
    /\ is_watchlist(name)
    /\ ~is_ignored(name)
    /\ link # None

InitialRow(name, availability, link) ==
    IF is_out_of_stock(availability)
    THEN Row(name, "Out of Stock", <<"XML Feed Verified">>, link, 0)
    ELSE IF NeedsDeepCheck(name, availability, link)
    THEN Row(name, "Checking...", <<"XML Feed Verified">>, link, 2)
    ELSE Row(name, "In Stock", <<"XML Feed Verified">>, link, 2)

----------------------------------------------------------------------------
\* Merge of one deep-check result into the rows, and the final sort

UpdateRow(row, result) ==
    [row EXCEPT !.Status = result.status,
                !.Details = result.details,
                !.sort_order = IF result.status = "Variation OOS" THEN 1
                               ELSE IF result.status = "In Stock" THEN 2
                               ELSE @]

\* for row in items_data: if row['Product Name'] == result['name']: ...; break
MergeResult(rows, result) ==
    LET hits == { n \in 1..Len(rows) : rows[n].Product_Name = result.name }
    IN  IF hits = {} THEN rows
        ELSE LET n == CHOOSE h \in hits : \A g \in hits : h <= g
             IN  [rows EXCEPT ![n] = UpdateRow(@, result)]

KeyLess(a, b) ==
    \/ a.sort_order < b.sort_order
    \/ a.sort_order = b.sort_order /\ NameLess(a.Product_Name, b.Product_Name)

RECURSIVE InsertRow(_, _)
InsertRow(sorted, r) ==
    IF sorted = <<>> THEN <<r>>
    ELSE IF KeyLess(r, Head(sorted)) THEN <<r>> \o sorted
    ELSE <<Head(sorted)>> \o InsertRow(Tail(sorted), r)

\* df.sort_values(by=['_sort_order', 'Product Name'])
RECURSIVE sort_values(_)
sort_values(rows) ==
    IF rows = <<>> THEN <<>>
    ELSE InsertRow(sort_values(SubSeq(rows, 1, Len(rows) - 1)), rows[Len(rows)])

----------------------------------------------------------------------------
\* The thread pool

Future(name, url) ==
    [name |-> name, url |-> url, state |-> "pending", page |-> NoPage,
     result |-> NoResult]

Running == { k \in 1..Len(futures) : futures[k].state = "running" }

Pending == { k \in 1..Len(futures) : futures[k].state = "pending" }

\* Results taken as the tasks complete: a finished task first, the latest
\* submitted of them.
NextFutureAsCompleted(futs, done) ==
    LET open == (1..Len(futs)) \ done
        ready == { k \in open : futs[k].state = "done" }
    IN  IF ready # {}
        THEN CHOOSE k \in ready : \A g \in ready : g <= k
        ELSE CHOOSE k \in open : \A g \in open : k <= g

\* `for future in futures`: a dict iterates in insertion order, which is the
\* order of submission.
NextFuture(futs, done) ==
    CHOOSE k \in (1..Len(futs)) \ done : \A g \in (1..Len(futs)) \ done : k <= g

\* A result read without waiting for the task.
ResultReadyNoWait(f) == TRUE

\* future.result() blocks until the task has finished.
ResultReady(f) == f.state = "done"

----------------------------------------------------------------------------
\* The audit

Init ==
    /\ items \in Feeds
    /\ i = 1
    /\ items_data = <<>>
    /\ deep_check_candidates = <<>>
    /\ futures = <<>>
    /\ consumed = {}
    /\ df = <<>>
    /\ pc = "process"

\* One iteration of `for item in items`
ProcessItem ==
    /\ pc = "process"
    /\ i <= Len(items)
    /\ LET title == get_tag_text(items[i], "title")
           availability == get_tag_text(items[i], "availability")
           link == get_tag_text(items[i], "link")
           name == CleanName(title)
       IN  IF title = None \/ availability = None
           THEN UNCHANGED <<items_data, deep_check_candidates>>
           ELSE /\ items_data' = Append(items_data, InitialRow(name, availability, link))
                /\ deep_check_candidates' =
                       IF NeedsDeepCheck(name, availability, link)
                       THEN Append(deep_check_candidates, [name |-> name, url |-> link])
                       ELSE deep_check_candidates
    /\ i' = i + 1
    /\ UNCHANGED <<items, futures, consumed, df, pc>>

\* `if deep_check_candidates:` and the submission of every candidate
RunDeepChecks ==
    /\ pc = "process"
    /\ i > Len(items)
    /\ IF deep_check_candidates # <<>>
       THEN /\ futures' = [k \in 1..Len(deep_check_candidates) |->
                             Future(deep_check_candidates[k].name,
                                    deep_check_candidates[k].url)]
            /\ pc' = "merge"
       ELSE /\ pc' = "display"
            /\ UNCHANGED futures
    /\ UNCHANGED <<items, i, items_data, deep_check_candidates, consumed, df>>

\* A free worker takes the oldest queued task.
Start(k) ==
    /\ k \in Pending
    /\ \A g \in Pending : k <= g
    /\ Cardinality(Running) < max_workers
    /\ futures' = [futures EXCEPT ![k].state = "running"]
    /\ UNCHANGED <<items, i, items_data, deep_check_candidates, consumed, df, pc>>

\* A task finishes: the page it got decides its result.
Complete(k, page) ==
    /\ k \in Running
    /\ futures' = [futures EXCEPT
                     ![k].state = "done",
                     ![k].page = page,
                     ![k].result = check_single_page_range_rule(
                                       futures[k].url, futures[k].name, page)]
    /\ UNCHANGED <<items, i, items_data, deep_check_candidates, consumed, df, pc>>

\* One iteration of `for future in futures`
Merge ==
    /\ pc = "merge"
    /\ consumed # 1..Len(futures)
    /\ LET k == NextFuture(futures, consumed)
           result == futures[k].result
       IN  /\ ResultReady(futures[k])
           /\ consumed' = consumed \cup {k}
           /\ IF result = Fault
              THEN \* except Exception as e: st.error(...)
                   /\ pc' = "error"
                   /\ UNCHANGED items_data
              ELSE /\ items_data' = MergeResult(items_data, result)
                   /\ UNCHANGED pc
    /\ UNCHANGED <<items, i, deep_check_candidates, futures, df>>

\* End of the `with` block: executor.shutdown(wait=True)
ExitPool ==
    /\ pc = "merge"
    /\ consumed = 1..Len(futures)
    /\ \A k \in 1..Len(futures) : futures[k].state = "done"
    /\ pc' = "display"
    /\ UNCHANGED <<items, i, items_data, deep_check_candidates, futures, consumed, df>>

\* Step 5: sort and show the table
Display ==
    /\ pc = "display"
    /\ df' = IF items_data # <<>> THEN sort_values(items_data) ELSE <<>>
    /\ pc' = "done"
    /\ UNCHANGED <<items, i, items_data, deep_check_candidates, futures, consumed>>

Next ==
    \/ ProcessItem
    \/ RunDeepChecks
    \/ \E k \in 1..Len(futures) : Start(k)
    \/ \E k \in 1..Len(futures), page \in Pages : Complete(k, page)
    \/ Merge
    \/ ExitPool
    \/ Display

Spec == Init /\ [][Next]_vars

----------------------------------------------------------------------------
\* Vocabulary of the properties

\* The three fields of interest of a feed item
TitleOf(item) == get_tag_text(item, "title")
AvailabilityOf(item) == get_tag_text(item, "availability")
LinkOf(item) == get_tag_text(item, "link")

\* A record with a title and an availability
IsValid(item) == TitleOf(item) # None /\ AvailabilityOf(item) # None

\* The valid records among the items processed so far, in feed order: row n
\* of items_data was built from record n of this sequence.
ValidProcessed == SelectSeq(SubSeq(items, 1, i - 1), IsValid)

FeedOutOfStock(item) == AvailabilityOf(item) = OutOfStockText

HasTrigger(name) == \E n \in 1..Len(name) : name[n] \in WATCHLIST_KEYWORDS

HasExclusion(name) == \E n \in 1..Len(name) : name[n] \in SINGLE_VARIANT_IGNORE

\* The classifier's decision as the specification words it
ShouldDeepCheck(item) ==
    /\ ~FeedOutOfStock(item)
    /\ HasTrigger(CleanName(TitleOf(item)))
    /\ ~HasExclusion(CleanName(TitleOf(item)))
    /\ LinkOf(item) # None

\* Statuses of a finished deep check
ResolvedStatuses == {"In Stock", "Variation OOS", "Link Error", "Check Failed"}

\* CHECK_FAILED, in its two spellings
FailedStatuses == {"Link Error", "Check Failed"}

\* rank of a status: SOLD_OUT=0, VARIANT_SOLD_OUT=1, every other status 2
StatusRank(status) ==
    IF status = "Out of Stock" THEN 0
    ELSE IF status = "Variation OOS" THEN 1
    ELSE 2

AllTasksDone == \A k \in 1..Len(futures) : futures[k].state = "done"

----------------------------------------------------------------------------
\* C1: a row made SOLD_OUT from the feed keeps status SOLD_OUT and its feed
\* detail in every reachable state, whatever deep-check results are merged.
SoldOutIsFinal ==
    \A n \in 1..Len(items_data) :
        FeedOutOfStock(ValidProcessed[n]) =>
            /\ items_data[n].Status = "Out of Stock"
            /\ items_data[n].Details = <<"XML Feed Verified">>

\* C2: when the table is finalized no row is still PENDING_CHECK, and every
\* row that was queued for a deep check has a resolved status.
PendingResolvedAtFinalize ==
    pc = "done" =>
        /\ \A n \in 1..Len(df) : df[n].Status # "Checking..."
        /\ \A n \in 1..Len(items_data) :
               ShouldDeepCheck(ValidProcessed[n]) =>
                   items_data[n].Status \in ResolvedStatuses

\* C3: the final table holds one row per distinct link: no two rows share a
\* link (rows without a link are left alone).
OneRowPerUrl ==
    pc = "done" =>
        \A m, n \in 1..Len(df) :
            (m # n /\ df[m].URL # None) => df[m].URL # df[n].URL

\* C4: throughout classification and at its end, a valid record is queued
\* for a deep check exactly when it is not out of stock, its cleaned name has
\* a trigger and no exclusion, and it has a link; an out-of-stock record is
\* SOLD_OUT, a queued record PENDING_CHECK and every other record IN_STOCK.
ClassifierDecision ==
    pc = "process" =>
        LET valid == ValidProcessed
            queued == SelectSeq(valid, ShouldDeepCheck)
        IN  /\ Len(items_data) = Len(valid)
            /\ deep_check_candidates =
                   [n \in 1..Len(queued) |->
                       [name |-> CleanName(TitleOf(queued[n])),
                        url |-> LinkOf(queued[n])]]
            /\ \A n \in 1..Len(items_data) :
                   items_data[n].Status =
                       IF FeedOutOfStock(valid[n]) THEN "Out of Stock"
                       ELSE IF ShouldDeepCheck(valid[n]) THEN "Checking..."
                       ELSE "In Stock"

\* C4 witness: classification is over, with a queued record, a watchlisted
\* out-of-stock record that was not queued, and a watchlisted in-stock record
\* left IN_STOCK for want of a link.
ClassifierDecisionWitness ==
    /\ pc = "process"
    /\ i > Len(items)
    /\ deep_check_candidates # <<>>
    /\ \E n \in 1..Len(items_data) :
           /\ items_data[n].Status = "Out of Stock"
           /\ HasTrigger(items_data[n].Product_Name)
    /\ \E n \in 1..Len(items_data) :
           /\ items_data[n].Status = "In Stock"
           /\ HasTrigger(items_data[n].Product_Name)
           /\ items_data[n].URL = None

\* C5: every submitted item yields one result value for its own name; a
\* failed inspection is a CHECK_FAILED value, the audit is never aborted by
\* it, and the final table has one row for every valid feed record.
EveryItemYieldsResult ==
    /\ pc # "error"
    /\ \A k \in 1..Len(futures) :
           /\ futures[k].state = "done" =>
                  /\ futures[k].result.name = futures[k].name
                  /\ futures[k].result.status \in ResolvedStatuses
                  /\ (futures[k].page.exc \/ futures[k].page.status_code # 200) =>
                         futures[k].result.status \in FailedStatuses
           /\ k \in consumed => futures[k].state = "done"
    /\ pc \in {"display", "done"} =>
           /\ Len(futures) = Len(deep_check_candidates)
           /\ consumed = 1..Len(futures)
    /\ pc = "done" => Len(df) = Len(SelectSeq(items, IsValid))

\* C5 witness: the audit has finished with a table of several rows although
\* one inspection got a 404 and another raised.
EveryItemYieldsResultWitness ==
    /\ pc = "done"
    /\ Len(df) >= 2
    /\ \E k \in 1..Len(futures) : futures[k].page.status_code = 404
    /\ \E k \in 1..Len(futures) : futures[k].page.exc

\* Labels of the out-of-stock variants of a payload
MissingLabels(variants) ==
    { variants[n].attr : n \in { v \in 1..Len(variants) : ~variants[v].is_in_stock } }

IsRange(text) == \E n \in 1..Len(text) : text[n] \in {"-", "ENDASH"}

SortedByStatusThenName ==
    pc = "done" =>
        \A m, n \in 1..Len(df) :
            m < n =>
                /\ StatusRank(df[m].Status) <= StatusRank(df[n].Status)
                /\ StatusRank(df[m].Status) = StatusRank(df[n].Status) =>
                       ~NameLess(df[n].Product_Name, df[m].Product_Name)

\* C8 (as stated): no row has been updated with a deep-check result while a
\* dispatched task is still unfinished.
MergeAfterAllTasks == consumed # {} => AllTasksDone

\* C8 (amended): a result is merged only after its own task has completed,
\* in submission order; the table is sorted and shown only after every
\* dispatched task has completed.
MergeAfterOwnTask ==
    /\ \A k \in consumed :
           /\ futures[k].state = "done"
           /\ \A g \in 1..k : g \in consumed
    /\ pc \in {"display", "done"} => AllTasksDone

\* C8 witness: a result has been merged into its row while another
\* dispatched task is still running.
MergeAfterOwnTaskWitness ==
    /\ 1 \in consumed
    /\ \E n \in 1..Len(items_data) : items_data[n].Status \in ResolvedStatuses \ {"In Stock"}
    /\ \E k \in 1..Len(futures) : futures[k].state = "running"

\* C9: at finalization the rank of every row is the rank of its status.
RankMatchesStatus ==
    pc = "done" =>
        \A n \in 1..Len(df) : df[n].sort_order = StatusRank(df[n].Status)

\* Rows of a feed, classified in feed order
RECURSIVE ClassifyAll(_)
ClassifyAll(its) ==
    IF its = <<>> THEN <<>>
    ELSE LET last == its[Len(its)]
             before == ClassifyAll(SubSeq(its, 1, Len(its) - 1))
         IN  IF IsValid(last)
             THEN Append(before, InitialRow(CleanName(TitleOf(last)),
                                            AvailabilityOf(last), LinkOf(last)))
             ELSE before

\* The results of tasks 1..k merged one after the other
RECURSIVE MergeUpTo(_, _)
MergeUpTo(rows, k) ==
    IF k = 0 THEN rows
    ELSE MergeResult(MergeUpTo(rows, k - 1), futures[k].result)

\* C10: the final table is a function of the feed and of the outcome of each
\* queued item: the rows of the feed with the results merged in submission
\* order, sorted; the order in which the tasks ran and finished has no part.
TableIndependentOfSchedule ==
    pc = "done" =>
        df = sort_values(MergeUpTo(ClassifyAll(items), Len(futures)))

\* C10 witness: the audit has finished after two tasks for the same product
\* name returned different results.
TableIndependentOfScheduleWitness ==
    /\ pc = "done"
    /\ \E k, g \in 1..Len(futures) :
           /\ k < g
           /\ futures[k].name = futures[g].name
           /\ futures[k].result.status # futures[g].result.status

====
